---- MODULE Spec2Model ----
(***************************************************************************)
(* Account authentication of the NASA blog blueprint: password policy,     *)
(* login with progressive lockout, the login-attempt audit trail and the   *)
(* administrative password reset (src/nasa/auth.py, src/nasa/routes.py).   *)
(* The User model's methods (nasa/models.py) are not part of the sources;  *)
(* they are modelled from the specification, section 4.2.                  *)
(***************************************************************************)
EXTENDS Integers, Sequences, FiniteSets, TLC

VARIABLES
    users,           \* the User table: id -> row (committed state)
    login_attempts,  \* the LoginAttempt table, in insertion order
    session,         \* the cookie session of each client
    now,             \* the clock, in minutes
    pc,              \* position of each client's in-flight login request
    req,             \* the in-flight login request of each client
    rowLock,         \* the client whose open transaction has updated the row
    started,         \* login requests each client has submitted concurrently
    last,            \* the last completed request and what it observed
    streak,          \* wrong-password logins handled for TargetId since it was clean
    streakAt,        \* the clock at the last of them
    lockSets,        \* transitions of TargetId's locked_until from unset to set
    pw,              \* the password handed to validate_password
    verdict          \* what validate_password returned for it

vars == <<users, login_attempts, session, now, pc, req, rowLock, started, started, last,
          streak, streakAt, lockSets, pw, verdict>>

(***************************************************************************)
(* Bounds of the model.                                                    *)
(***************************************************************************)
MaxNow == 30
MaxLog == 1
MaxRequests == 1
MaxPad == 16
MaxTail == 3

(***************************************************************************)
(* Program constants.                                                      *)
(***************************************************************************)
MinPasswordLength == 16
MinCategories == 3
LockoutThreshold == 10
LockMinutes == 30

\* Python's None, and a present optional value
None == <<>>
Some(x) == <<x>>

TickStep == LockMinutes \div 2

(***************************************************************************)
(* Characters and strings. A string is a sequence of one-character strings.*)
(***************************************************************************)
AsciiUpper == {"A","B","C","D","E","F","G","H","I","J","K","L","M",
               "N","O","P","Q","R","S","T","U","V","W","X","Y","Z"}
AsciiLower == {"a","b","c","d","e","f","g","h","i","j","k","l","m",
               "n","o","p","q","r","s","t","u","v","w","x","y","z"}
AsciiDigit == {"0","1","2","3","4","5","6","7","8","9"}
\* the symbol list of the inline strength checks of routes.py
RouteSymbols == {"!","@","#","$","%","^","&","*","(",")","_","+","-","=",
                 "[","]","{","}","|",";",":",",",".","<",">","?"}

RECURSIVE Rep(_, _)
Rep(c, n) == IF n = 0 THEN <<>> ELSE <<c>> \o Rep(c, n - 1)

RECURSIVE lstrip(_)
lstrip(s) == IF s # <<>> /\ Head(s) = " " THEN lstrip(Tail(s)) ELSE s

RECURSIVE rstrip(_)
rstrip(s) ==
    IF s # <<>> /\ s[Len(s)] = " " THEN rstrip(SubSeq(s, 1, Len(s) - 1)) ELSE s

\* str.strip()
strip(s) == rstrip(lstrip(s))

\* re.search(r'[...]', password): some character of the string is in the class
re_search(class, s) == \E i \in 1..Len(s) : s[i] \in class

\* re.search(r'[^...]', password): some character is outside the class
re_search_not(class, s) == \E i \in 1..Len(s) : s[i] \notin class

(***************************************************************************)
(* PasswordPolicy: validate_password, src/nasa/auth.py                     *)
(***************************************************************************)
TooShortMsg == "Password must be at least 16 characters long"
ComplexityMsg ==
    "Password must contain at least 3 of: uppercase, lowercase, number, symbol"

validate_password_lax(password) ==
    IF Len(password) < MinPasswordLength
    THEN <<FALSE, TooShortMsg>>
    ELSE LET has_upper  == re_search(AsciiUpper, password)
             has_lower  == re_search(AsciiLower, password)
             has_digit  == re_search(AsciiDigit, password)
             has_symbol == re_search_not(AsciiUpper \cup AsciiLower \cup AsciiDigit, password)
             c1 == IF has_upper THEN 1 ELSE 0
             c2 == IF has_lower THEN c1 + 1 ELSE c1
             c3 == IF has_digit THEN c2 + 1 ELSE c2
             categories == IF has_symbol THEN c3 + 1 ELSE c3
         IN  IF categories < MinCategories - 1
             THEN <<FALSE, ComplexityMsg>>
             ELSE <<TRUE, "">>

validate_password(password) ==
    IF Len(password) < MinPasswordLength
    THEN <<FALSE, TooShortMsg>>
    ELSE LET has_upper  == re_search(AsciiUpper, password)
             has_lower  == re_search(AsciiLower, password)
             has_digit  == re_search(AsciiDigit, password)
             has_symbol == re_search_not(AsciiUpper \cup AsciiLower \cup AsciiDigit, password)
             c1 == IF has_upper THEN 1 ELSE 0
             c2 == IF has_lower THEN c1 + 1 ELSE c1
             c3 == IF has_digit THEN c2 + 1 ELSE c2
             categories == IF has_symbol THEN c3 + 1 ELSE c3
         IN  IF categories < MinCategories
             THEN <<FALSE, ComplexityMsg>>
             ELSE <<TRUE, "">>

(***************************************************************************)
(* Password hashing (werkzeug.security): a salted one-way hash. The digest *)
(* is a function of salt and password that no other pair produces.         *)
(***************************************************************************)
Salts == {"s1", "s2"}

Digest(salt, password) == <<"scrypt", salt, password>>

generate_password_hash(password, salt) ==
    [method |-> "scrypt", salt |-> salt, digest |-> Digest(salt, password)]

check_password_hash(pwhash, password) ==
    pwhash.digest = Digest(pwhash.salt, password)

(***************************************************************************)
(* The User model's methods (nasa/models.py), from section 4.2.            *)
(***************************************************************************)
\* verify(account, plaintext)
check_password(user, password) == check_password_hash(user.password_hash, password)

\* isLocked(account, now): lockedUntil is set and now < lockedUntil
is_locked(user, t) == user.locked_until # None /\ t < user.locked_until[1]

increment_failed_login_once(user, t) ==
    LET n == user.failed_login_attempts + 1
    IN  [user EXCEPT !.failed_login_attempts = n,
                     !.locked_until = IF n = LockoutThreshold
                                      THEN Some(t + LockMinutes)
                                      ELSE @]

\* recordFailure(account, now)
increment_failed_login(user, t) ==
    LET n == user.failed_login_attempts + 1
    IN  [user EXCEPT !.failed_login_attempts = n,
                     !.locked_until = IF n >= LockoutThreshold
                                      THEN Some(t + LockMinutes)
                                      ELSE @]

\* recordSuccess(account)
reset_failed_logins(user) ==
    [user EXCEPT !.failed_login_attempts = 0, !.locked_until = None]

(***************************************************************************)
(* Responses: a rendered template or a redirect with the flashed message,  *)
(* or the framework's 500 page for an exception that leaves the handler.   *)
(***************************************************************************)
Flash(message, category, arg) ==
    [message |-> message, category |-> category, arg |-> arg]

render_template(template, flashed) ==
    [status |-> 200, body |-> template, flash |-> flashed]

redirect(target, flashed) ==
    [status |-> 302, body |-> target, flash |-> flashed]

InternalServerError(exception) ==
    [status |-> 500, body |-> exception, flash |-> <<>>]

NoResponse == [status |-> 0, body |-> "", flash |-> <<>>]

(***************************************************************************)
(* AttemptAuditor: log_login_attempt, src/nasa/auth.py                     *)
(***************************************************************************)
\* the body of log_login_attempt: the insert commits (stored) or raises; the
\* exception is logged and swallowed after a rollback
log_login_attempt_raising(log, username, success, user_agent, request, stored) ==
    IF stored
    THEN [raised |-> FALSE,
          log |-> Append(log, [username   |-> username,
                               ip_address |-> request.remote_addr,
                               success    |-> success,
                               user_agent |-> IF user_agent # None
                                              THEN user_agent[1]
                                              ELSE request.user_agent])]
    ELSE [raised |-> TRUE, log |-> log]

log_login_attempt(log, username, success, user_agent, request, stored) ==
    IF stored
    THEN [raised |-> FALSE,
          log |-> Append(log, [username   |-> username,
                               ip_address |-> request.remote_addr,
                               success    |-> success,
                               user_agent |-> IF user_agent # None
                                              THEN user_agent[1]
                                              ELSE request.user_agent])]
    ELSE [raised |-> FALSE, log |-> log]

\* a call log_login_attempt(*args): the signature takes (username, success,
\* user_agent=None); more than three positional arguments raise TypeError
\* before the body runs
call_log_login_attempt(args, log, request, stored) ==
    IF Len(args) > 3 \/ Len(args) < 2
    THEN [raised |-> TRUE, log |-> log]
    ELSE log_login_attempt(log, args[1], args[2],
                           IF Len(args) = 3 THEN Some(args[3]) ELSE None,
                           request, stored)

(***************************************************************************)
(* The database session. A handler changes loaded rows; db.session.commit  *)
(* makes the pending table the stored one, or raises and stores nothing;   *)
(* db.session.rollback discards what is pending.                           *)
(***************************************************************************)
commit_torn(db, pending, committed) == pending

commit(db, pending, committed) == IF committed THEN pending ELSE db

rollback(db, pending) == db

(***************************************************************************)
(* The login handler, src/nasa/routes.py                                   *)
(***************************************************************************)
\* User.query.filter_by(username=username).first()
query_by_username(db, username) ==
    LET ids == {i \in DOMAIN db : db[i].username = username}
    IN  IF ids = {} THEN None
        ELSE Some(CHOOSE i \in ids : \A j \in ids : i <= j)

EmptySession == [user_id |-> None, username |-> None]

\* lines 186-211: the checks before password verification; "verify" when
\* the request goes on to check_password
login_gate_nolock(db, form, t) ==
    LET username == strip(form.username)
        found    == query_by_username(db, username)
    IN  IF username = <<>> \/ form.password = <<>>
        THEN [outcome |-> "missing", uid |-> None]
        ELSE IF found = None
        THEN [outcome |-> "not_found", uid |-> None]
        ELSE IF ~db[found[1]].is_approved
        THEN [outcome |-> "pending", uid |-> found]
        ELSE [outcome |-> "verify", uid |-> found]

login_gate_nopending(db, form, t) ==
    LET username == strip(form.username)
        found    == query_by_username(db, username)
    IN  IF username = <<>> \/ form.password = <<>>
        THEN [outcome |-> "missing", uid |-> None]
        ELSE IF found = None
        THEN [outcome |-> "not_found", uid |-> None]
        ELSE IF is_locked(db[found[1]], t)
        THEN [outcome |-> "locked", uid |-> found]
        ELSE [outcome |-> "verify", uid |-> found]

\* a lock that does not lapse
login_gate_permalock(db, form, t) ==
    LET username == strip(form.username)
        found    == query_by_username(db, username)
    IN  IF username = <<>> \/ form.password = <<>>
        THEN [outcome |-> "missing", uid |-> None]
        ELSE IF found = None
        THEN [outcome |-> "not_found", uid |-> None]
        ELSE IF ~db[found[1]].is_approved
        THEN [outcome |-> "pending", uid |-> found]
        ELSE IF db[found[1]].locked_until # None
        THEN [outcome |-> "locked", uid |-> found]
        ELSE [outcome |-> "verify", uid |-> found]

login_gate(db, form, t) ==
    LET username == strip(form.username)
        found    == query_by_username(db, username)
    IN  IF username = <<>> \/ form.password = <<>>
        THEN [outcome |-> "missing", uid |-> None]
        ELSE IF found = None
        THEN [outcome |-> "not_found", uid |-> None]
        ELSE IF ~db[found[1]].is_approved
        THEN [outcome |-> "pending", uid |-> found]
        ELSE IF is_locked(db[found[1]], t)
        THEN [outcome |-> "locked", uid |-> found]
        ELSE [outcome |-> "verify", uid |-> found]

\* lines 190-211: what a request that stops before verification writes and
\* answers
login_reject(gate, db, log, request, stored) ==
    LET username == strip(request.form.username)
        page(a, flashed) ==
            [login_attempts |-> a.log,
             response |-> IF a.raised THEN InternalServerError("TypeError")
                          ELSE render_template("nasa_login.html", flashed)]
        unlogged == [raised |-> FALSE, log |-> log]
    IN  CASE gate.outcome = "missing" ->
               page(unlogged,
                    <<Flash("Username and password are required.", "danger", None)>>)
          [] gate.outcome = "not_found" ->
               page(call_log_login_attempt(
                        <<username, request.remote_addr, FALSE, "User not found">>,
                        log, request, stored),
                    <<Flash("Invalid username or password.", "danger", None)>>)
          [] gate.outcome = "pending" ->
               page(call_log_login_attempt(
                        <<username, request.remote_addr, FALSE, "Account pending approval">>,
                        log, request, stored),
                    <<Flash("Your account is pending admin approval.", "warning", None)>>)
          [] gate.outcome = "locked" ->
               page(unlogged,
                    <<Flash("Account is locked due to too many failed attempts. Try again after",
                            "danger", db[gate.uid[1]].locked_until)>>)

\* lines 213-214 and 221-222: password verification and the mutation of the
\* row; user is the loaded object, row the stored row the update applies to
login_verify_noreset(user, row, password, t) ==
    IF check_password(user, password)
    THEN [outcome |-> "success", row |-> row]
    ELSE [outcome |-> "wrong_password", row |-> increment_failed_login(row, t)]

login_verify_nocount(user, row, password, t) ==
    IF check_password(user, password)
    THEN [outcome |-> "success", row |-> reset_failed_logins(row)]
    ELSE [outcome |-> "wrong_password", row |-> row]

\* a success that zeroes the count and leaves locked_until
login_verify_keeplock(user, row, password, t) ==
    IF check_password(user, password)
    THEN [outcome |-> "success", row |-> [row EXCEPT !.failed_login_attempts = 0]]
    ELSE [outcome |-> "wrong_password", row |-> increment_failed_login(row, t)]

\* a failure after a lapsed lock that starts the count again
login_verify_restart(user, row, password, t) ==
    IF check_password(user, password)
    THEN [outcome |-> "success", row |-> reset_failed_logins(row)]
    ELSE [outcome |-> "wrong_password",
          row |-> IF row.locked_until # None
                  THEN increment_failed_login(reset_failed_logins(row), t)
                  ELSE increment_failed_login(row, t)]

login_verify(user, row, password, t) ==
    IF check_password(user, password)
    THEN [outcome |-> "success", row |-> reset_failed_logins(row)]
    ELSE [outcome |-> "wrong_password", row |-> increment_failed_login(row, t)]

\* the remaining attempts counted from the row as it was loaded
login_finish_stale(outcome, row, uid, sess, log, request, stored) ==
    LET username == strip(request.form.username)
        a == call_log_login_attempt(
                 <<username, outcome = "success">>, log, request, stored)
        remaining == LockoutThreshold - (row.failed_login_attempts - 1)
    IN  IF outcome = "success"
        THEN [session |-> [user_id |-> Some(uid), username |-> Some(row.username)],
              login_attempts |-> a.log,
              response |-> IF a.raised THEN InternalServerError("Exception")
                           ELSE redirect("nasa_bp.dashboard",
                                         <<Flash("Welcome back", "success",
                                                 Some(row.username))>>)]
        ELSE [session |-> sess,
              login_attempts |-> a.log,
              response |-> IF a.raised THEN InternalServerError("Exception")
                           ELSE IF remaining > 0
                           THEN render_template("nasa_login.html",
                                    <<Flash("Invalid password. attempts remaining before lockout.",
                                            "danger", Some(remaining))>>)
                           ELSE render_template("nasa_login.html",
                                    <<Flash("Account locked for 30 minutes due to too many failed attempts.",
                                            "danger", None)>>)]

login_finish_anysession(outcome, row, uid, sess, log, request, stored) ==
    LET username == strip(request.form.username)
        a == call_log_login_attempt(
                 <<username, outcome = "success">>, log, request, stored)
        remaining == LockoutThreshold - row.failed_login_attempts
    IN  IF outcome = "success"
        THEN [session |-> [user_id |-> Some(uid), username |-> Some(row.username)],
              login_attempts |-> a.log,
              response |-> IF a.raised THEN InternalServerError("Exception")
                           ELSE redirect("nasa_bp.dashboard",
                                         <<Flash("Welcome back", "success",
                                                 Some(row.username))>>)]
        ELSE [session |-> [user_id |-> Some(uid), username |-> Some(row.username)],
              login_attempts |-> a.log,
              response |-> IF a.raised THEN InternalServerError("Exception")
                           ELSE IF remaining > 0
                           THEN render_template("nasa_login.html",
                                    <<Flash("Invalid password. attempts remaining before lockout.",
                                            "danger", Some(remaining))>>)
                           ELSE render_template("nasa_login.html",
                                    <<Flash("Account locked for 30 minutes due to too many failed attempts.",
                                            "danger", None)>>)]

\* lines 216-220 and 224-231: after the commit; row is the committed row as
\* the handler reads it back
login_finish(outcome, row, uid, sess, log, request, stored) ==
    LET username == strip(request.form.username)
        a == call_log_login_attempt(
                 <<username, outcome = "success">>, log, request, stored)
        remaining == LockoutThreshold - row.failed_login_attempts
    IN  IF outcome = "success"
        THEN [session |-> [user_id |-> Some(uid), username |-> Some(row.username)],
              login_attempts |-> a.log,
              response |-> IF a.raised THEN InternalServerError("Exception")
                           ELSE redirect("nasa_bp.dashboard",
                                         <<Flash("Welcome back", "success",
                                                 Some(row.username))>>)]
        ELSE [session |-> sess,
              login_attempts |-> a.log,
              response |-> IF a.raised THEN InternalServerError("Exception")
                           ELSE IF remaining > 0
                           THEN render_template("nasa_login.html",
                                    <<Flash("Invalid password. attempts remaining before lockout.",
                                            "danger", Some(remaining))>>)
                           ELSE render_template("nasa_login.html",
                                    <<Flash("Account locked for 30 minutes due to too many failed attempts.",
                                            "danger", None)>>)]

\* login with the attempt logged before the credential mutation is committed
login_audit_first(db, log, sess, request, t, stored, committed) ==
    LET gate == login_gate(db, request.form, t)
    IN  IF gate.outcome # "verify"
        THEN LET r == login_reject(gate, db, log, request, stored)
             IN  [users |-> db, login_attempts |-> r.login_attempts, session |-> sess,
                  response |-> r.response, outcome |-> gate.outcome, uid |-> gate.uid]
        ELSE LET uid == gate.uid[1]
                 v   == login_verify(db[uid], db[uid], request.form.password, t)
                 pending == [db EXCEPT ![uid] = v.row]
                 db2 == IF stored THEN commit(db, pending, TRUE) ELSE rollback(db, pending)
                 db3 == commit(db, db2, committed)
                 f   == login_finish(v.outcome, db3[uid], uid, sess, log, request, stored)
             IN  IF committed
                 THEN [users |-> db3, login_attempts |-> f.login_attempts,
                       session |-> f.session, response |-> f.response,
                       outcome |-> v.outcome, uid |-> gate.uid]
                 ELSE [users |-> db2, login_attempts |-> f.login_attempts, session |-> sess,
                       response |-> InternalServerError("PersistenceError"),
                       outcome |-> "commit_failed", uid |-> gate.uid]

login_commit_swallowed(db, log, sess, request, t, stored, committed) ==
    LET gate == login_gate(db, request.form, t)
    IN  IF gate.outcome # "verify"
        THEN LET r == login_reject(gate, db, log, request, stored)
             IN  [users |-> db, login_attempts |-> r.login_attempts, session |-> sess,
                  response |-> r.response, outcome |-> gate.outcome, uid |-> gate.uid]
        ELSE LET uid == gate.uid[1]
                 v   == login_verify(db[uid], db[uid], request.form.password, t)
                 db2 == commit(db, [db EXCEPT ![uid] = v.row], committed)
                 db3 == IF stored THEN commit(db2, db2, TRUE) ELSE rollback(db2, db2)
                 f   == login_finish(v.outcome, db3[uid], uid, sess, log, request, stored)
             IN  [users |-> db3, login_attempts |-> f.login_attempts,
                  session |-> f.session, response |-> f.response,
                  outcome |-> IF committed THEN v.outcome ELSE "commit_failed",
                  uid |-> gate.uid]

\* the whole handler for one POST, run without interleaving; the commit of
\* lines 215 / 223 is not guarded: its exception leaves the handler before
\* the session is set and the attempt is logged. log_login_attempt works on
\* the same database session: its commit stores, and its rollback discards,
\* whatever the handler has pending at that point
login(db, log, sess, request, t, stored, committed) ==
    LET gate == login_gate(db, request.form, t)
    IN  IF gate.outcome # "verify"
        THEN LET r == login_reject(gate, db, log, request, stored)
             IN  [users |-> db, login_attempts |-> r.login_attempts, session |-> sess,
                  response |-> r.response, outcome |-> gate.outcome, uid |-> gate.uid]
        ELSE LET uid == gate.uid[1]
                 v   == login_verify(db[uid], db[uid], request.form.password, t)
                 db2 == commit(db, [db EXCEPT ![uid] = v.row], committed)
                 db3 == IF stored THEN commit(db2, db2, TRUE) ELSE rollback(db2, db2)
                 f   == login_finish(v.outcome, db3[uid], uid, sess, log, request, stored)
             IN  IF committed
                 THEN [users |-> db3, login_attempts |-> f.login_attempts,
                       session |-> f.session, response |-> f.response,
                       outcome |-> v.outcome, uid |-> gate.uid]
                 ELSE [users |-> db2, login_attempts |-> log, session |-> sess,
                       response |-> InternalServerError("PersistenceError"),
                       outcome |-> "commit_failed", uid |-> gate.uid]

\* logout: session.clear()
logout(sess) ==
    [session |-> EmptySession,
     response |-> redirect("nasa_bp.index",
                           <<Flash("You have been logged out.", "info", None)>>)]

(***************************************************************************)
(* The administrative password reset, src/nasa/routes.py                   *)
(***************************************************************************)
\* the inline "Password strength check" of reset_password (lines 673-690),
\* on ASCII characters: str.isupper / islower / isdigit and the symbol list
password_strength_check(password) ==
    IF Len(password) < 16
    THEN "too_short"
    ELSE LET u == IF \E i \in 1..Len(password) : password[i] \in AsciiUpper THEN 1 ELSE 0
             l == IF \E i \in 1..Len(password) : password[i] \in AsciiLower THEN 1 ELSE 0
             d == IF \E i \in 1..Len(password) : password[i] \in AsciiDigit THEN 1 ELSE 0
             y == IF \E i \in 1..Len(password) : password[i] \in RouteSymbols THEN 1 ELSE 0
             complexity_count == u + l + d + y
         IN  IF complexity_count < 3 THEN "weak" ELSE "ok"

\* lines 692-695: the update of the target row
reset_password_update_keeplock(target_user, new_password, salt) ==
    [target_user EXCEPT !.password_hash = generate_password_hash(new_password, salt),
                        !.failed_login_attempts = 0]

reset_password_update(target_user, new_password, salt) ==
    [target_user EXCEPT !.password_hash = generate_password_hash(new_password, salt),
                        !.failed_login_attempts = 0,
                        !.locked_until = None]

\* login_required and the handler body; form fields are None when absent;
\* lines 697-704: a failed commit is rolled back and reported
reset_password(db, sess, user_id, form, salt, committed) ==
    LET answer(db2, outcome, response) ==
            [users |-> db2, outcome |-> outcome, response |-> response]
        back(outcome, message, category, arg) ==
            answer(db, outcome,
                   redirect("nasa_bp.admin", <<Flash(message, category, arg)>>))
        new_password == IF form.new_password = None THEN <<>> ELSE form.new_password[1]
        confirm_password ==
            IF form.confirm_password = None THEN <<>> ELSE form.confirm_password[1]
    IN  IF sess.user_id = None
        THEN answer(db, "login_required",
                    redirect("nasa_bp.login",
                             <<Flash("Please log in to access this page.", "warning", None)>>))
        ELSE IF sess.user_id[1] \notin DOMAIN db \/ ~db[sess.user_id[1]].is_admin
        THEN answer(db, "access_denied",
                    redirect("nasa_bp.index",
                             <<Flash("Access denied. Admin privileges required.", "danger", None)>>))
        ELSE IF user_id \notin DOMAIN db
        THEN answer(db, "not_found", [status |-> 404, body |-> "Not Found", flash |-> <<>>])
        ELSE IF new_password = <<>> \/ confirm_password = <<>>
        THEN back("fields_required", "Both password fields are required.", "danger", None)
        ELSE IF new_password # confirm_password
        THEN back("mismatch", "Passwords do not match.", "danger", None)
        ELSE IF password_strength_check(new_password) = "too_short"
        THEN back("too_short", "Password must be at least 16 characters long.", "danger", None)
        ELSE IF password_strength_check(new_password) = "weak"
        THEN back("weak",
                  "Password must contain at least 3 of: uppercase, lowercase, number, symbol.",
                  "danger", None)
        ELSE IF committed
        THEN answer(commit(db, [db EXCEPT ![user_id] =
                                   reset_password_update(@, new_password, salt)], TRUE),
                    "ok",
                    redirect("nasa_bp.admin",
                             <<Flash("Password reset successfully for", "success",
                                     Some(db[user_id].username))>>))
        ELSE answer(rollback(commit(db, [db EXCEPT ![user_id] =
                                            reset_password_update(@, new_password, salt)],
                                    FALSE),
                             [db EXCEPT ![user_id] =
                                 reset_password_update(@, new_password, salt)]),
                    "commit_failed",
                    redirect("nasa_bp.admin",
                             <<Flash("An error occurred while resetting the password.",
                                     "danger", None)>>))

(***************************************************************************)
(* Registration and the administration of accounts, src/nasa/routes.py     *)
(***************************************************************************)
\* int(s) on a stripped string of ASCII characters: an optional sign and
\* decimal digits, None for ValueError
DigitValue ==
    ("0" :> 0) @@ ("1" :> 1) @@ ("2" :> 2) @@ ("3" :> 3) @@ ("4" :> 4) @@
    ("5" :> 5) @@ ("6" :> 6) @@ ("7" :> 7) @@ ("8" :> 8) @@ ("9" :> 9)

RECURSIVE digits_value(_)
digits_value(s) ==
    IF s = <<>> THEN 0
    ELSE 10 * digits_value(SubSeq(s, 1, Len(s) - 1)) + DigitValue[s[Len(s)]]

int(s) ==
    LET signed == s # <<>> /\ Head(s) \in {"+", "-"}
        digits == IF signed THEN Tail(s) ELSE s
    IN  IF digits = <<>> \/ \E i \in 1..Len(digits) : digits[i] \notin AsciiDigit
        THEN None
        ELSE Some(IF signed /\ Head(s) = "-"
                  THEN 0 - digits_value(digits) ELSE digits_value(digits))

\* User.query.filter_by(email=email).first()
query_by_email(db, email) ==
    LET ids == {i \in DOMAIN db : db[i].email = email}
    IN  IF ids = {} THEN None
        ELSE Some(CHOOSE i \in ids : \A j \in ids : i <= j)

\* the id the store gives a new row
next_user_id(db) ==
    IF DOMAIN db = {} THEN 1
    ELSE (CHOOSE i \in DOMAIN db : \A j \in DOMAIN db : j <= i) + 1

\* the columns a new User row takes from the model's defaults
User(username, email, password_hash, is_active, is_admin, is_approved) ==
    [username |-> username,
     email |-> email,
     password_hash |-> password_hash,
     failed_login_attempts |-> 0,
     locked_until |-> None,
     is_active |-> is_active,
     is_admin |-> is_admin,
     is_approved |-> is_approved]

\* the uniqueness of username and of email that the store enforces on a
\* commit (section 3: username, email unique)
unique_unchecked(db) == TRUE

unique_ok(db) ==
    \A i, j \in DOMAIN db :
        i # j => db[i].username # db[j].username /\ db[i].email # db[j].email

\* the table with row uid written
with_row(db, uid, row) ==
    [i \in DOMAIN db \cup {uid} |-> IF i = uid THEN row ELSE db[i]]

\* the table without row uid
without_row(db, uid) == [i \in DOMAIN db \ {uid} |-> db[i]]

admin_gate_loginonly(db, sess) ==
    IF sess.user_id = None THEN "login_required"
    ELSE "ok"

\* login_required, then the admin check every admin handler starts with
admin_gate(db, sess) ==
    IF sess.user_id = None THEN "login_required"
    ELSE IF sess.user_id[1] \notin DOMAIN db \/ ~db[sess.user_id[1]].is_admin
    THEN "access_denied"
    ELSE "ok"

admin_refusal(gate) ==
    IF gate = "login_required"
    THEN redirect("nasa_bp.login",
                  <<Flash("Please log in to access this page.", "warning", None)>>)
    ELSE redirect("nasa_bp.index",
                  <<Flash("Access denied. Admin privileges required.", "danger", None)>>)

NotFound == [status |-> 404, body |-> "Not Found", flash |-> <<>>]

register_check_strcmp(db, form, salt) ==
    LET username == strip(form.username)
        email == strip(form.email)
        captcha_user == strip(form.captcha)
        captcha_answer == strip(form.captcha_answer)
    IN  IF captcha_user = <<>> \/ captcha_answer = <<>>
        THEN [outcome |-> "captcha_missing", row |-> None,
              message |-> "Please complete the security check."]
        ELSE IF captcha_user # captcha_answer
        THEN [outcome |-> "captcha_wrong", row |-> None,
              message |-> "Incorrect answer to security question."]
        ELSE IF username = <<>> \/ email = <<>> \/ form.password = <<>>
        THEN [outcome |-> "fields_required", row |-> None,
              message |-> "All fields are required."]
        ELSE IF form.password # form.password_confirm
        THEN [outcome |-> "mismatch", row |-> None,
              message |-> "Passwords do not match."]
        ELSE IF password_strength_check(form.password) = "too_short"
        THEN [outcome |-> "too_short", row |-> None,
              message |-> "Password must be at least 16 characters long."]
        ELSE IF password_strength_check(form.password) = "weak"
        THEN [outcome |-> "weak", row |-> None,
              message |-> "Password must contain at least 3 of: uppercase, lowercase, number, symbol."]
        ELSE IF query_by_username(db, username) # None
        THEN [outcome |-> "username_taken", row |-> None,
              message |-> "Username already taken."]
        ELSE IF query_by_email(db, email) # None
        THEN [outcome |-> "email_taken", row |-> None,
              message |-> "Email already registered."]
        ELSE [outcome |-> "create",
              row |-> Some(User(username, email,
                                generate_password_hash(form.password, salt),
                                TRUE, FALSE, FALSE)),
              message |-> ""]

\* register, lines 100-165: the checks, and the row to create when all pass
register_check(db, form, salt) ==
    LET username == strip(form.username)
        email == strip(form.email)
        captcha_user == strip(form.captcha)
        captcha_answer == strip(form.captcha_answer)
    IN  IF captcha_user = <<>> \/ captcha_answer = <<>>
        THEN [outcome |-> "captcha_missing", row |-> None,
              message |-> "Please complete the security check."]
        ELSE IF int(captcha_user) = None \/ int(captcha_answer) = None
        THEN [outcome |-> "captcha_invalid", row |-> None,
              message |-> "Invalid security answer."]
        ELSE IF int(captcha_user) # int(captcha_answer)
        THEN [outcome |-> "captcha_wrong", row |-> None,
              message |-> "Incorrect answer to security question."]
        ELSE IF username = <<>> \/ email = <<>> \/ form.password = <<>>
        THEN [outcome |-> "fields_required", row |-> None,
              message |-> "All fields are required."]
        ELSE IF form.password # form.password_confirm
        THEN [outcome |-> "mismatch", row |-> None,
              message |-> "Passwords do not match."]
        ELSE IF password_strength_check(form.password) = "too_short"
        THEN [outcome |-> "too_short", row |-> None,
              message |-> "Password must be at least 16 characters long."]
        ELSE IF password_strength_check(form.password) = "weak"
        THEN [outcome |-> "weak", row |-> None,
              message |-> "Password must contain at least 3 of: uppercase, lowercase, number, symbol."]
        ELSE IF query_by_username(db, username) # None
        THEN [outcome |-> "username_taken", row |-> None,
              message |-> "Username already taken."]
        ELSE IF query_by_email(db, email) # None
        THEN [outcome |-> "email_taken", row |-> None,
              message |-> "Email already registered."]
        ELSE [outcome |-> "create",
              row |-> Some(User(username, email,
                                generate_password_hash(form.password, salt),
                                TRUE, FALSE, FALSE)),
              message |-> ""]

\* lines 167-177: add and commit; a failure is rolled back and reported
register_store_partial(db, row, committed) ==
    LET pending == with_row(db, next_user_id(db), row)
        ok == committed /\ unique_ok(pending)
    IN  [users |-> pending,
         outcome |-> IF ok THEN "ok" ELSE "commit_failed",
         response |->
             IF ok
             THEN redirect("nasa_bp.login",
                      <<Flash("Registration successful! Your account is pending admin approval.",
                              "success", None)>>)
             ELSE render_template("nasa_register.html",
                      <<Flash("Registration failed. Please try again.", "danger", None)>>)]

register_store(db, row, committed) ==
    LET pending == with_row(db, next_user_id(db), row)
        ok == committed /\ unique_ok(pending)
    IN  [users |-> IF ok THEN commit(db, pending, TRUE)
                   ELSE rollback(commit(db, pending, FALSE), pending),
         outcome |-> IF ok THEN "ok" ELSE "commit_failed",
         response |->
             IF ok
             THEN redirect("nasa_bp.login",
                      <<Flash("Registration successful! Your account is pending admin approval.",
                              "success", None)>>)
             ELSE render_template("nasa_register.html",
                      <<Flash("Registration failed. Please try again.", "danger", None)>>)]

\* the whole handler for one POST
register(db, form, salt, committed) ==
    LET chk == register_check(db, form, salt)
    IN  IF chk.outcome # "create"
        THEN [users |-> db, outcome |-> chk.outcome,
              response |-> render_template("nasa_register.html",
                               <<Flash(chk.message, "danger", None)>>)]
        ELSE register_store(db, chk.row[1], committed)

AdminPage(message, category, arg) ==
    redirect("nasa_bp.admin", <<Flash(message, category, arg)>>)

\* add_user, lines 713-772: the checks, and the row to create when all pass
add_user_check(db, sess, form, salt) ==
    LET username == strip(form.username)
        email == strip(form.email)
        refused(outcome, message) ==
            [outcome |-> outcome, row |-> None,
             response |-> AdminPage(message, "danger", None)]
    IN  IF admin_gate(db, sess) # "ok"
        THEN [outcome |-> admin_gate(db, sess), row |-> None,
              response |-> admin_refusal(admin_gate(db, sess))]
        ELSE IF username = <<>> \/ email = <<>> \/ form.password = <<>>
        THEN refused("fields_required", "Username, email, and password are required.")
        ELSE IF form.password # form.confirm_password
        THEN refused("mismatch", "Passwords do not match.")
        ELSE IF password_strength_check(form.password) = "too_short"
        THEN refused("too_short", "Password must be at least 16 characters long.")
        ELSE IF password_strength_check(form.password) = "weak"
        THEN refused("weak",
                     "Password must contain at least 3 of: uppercase, lowercase, number, symbol.")
        ELSE IF query_by_username(db, username) # None
        THEN [outcome |-> "username_taken", row |-> None,
              response |-> AdminPage("Username already exists.", "danger", Some(username))]
        ELSE IF query_by_email(db, email) # None
        THEN [outcome |-> "email_taken", row |-> None,
              response |-> AdminPage("Email is already registered.", "danger", Some(email))]
        ELSE [outcome |-> "create",
              row |-> Some(User(username, email,
                                generate_password_hash(form.password, salt),
                                form.is_active, form.is_admin, form.is_approved)),
              response |-> NoResponse]

\* lines 774-783: add and commit; a failure is rolled back and reported
add_user_store(db, row, committed) ==
    LET pending == with_row(db, next_user_id(db), row)
        ok == committed /\ unique_ok(pending)
    IN  [users |-> IF ok THEN commit(db, pending, TRUE)
                   ELSE rollback(commit(db, pending, FALSE), pending),
         outcome |-> IF ok THEN "ok" ELSE "commit_failed",
         response |->
             IF ok
             THEN AdminPage("User has been created successfully.", "success",
                            Some(row.username))
             ELSE AdminPage("An error occurred while creating the user.", "danger", None)]

add_user(db, sess, form, salt, committed) ==
    LET chk == add_user_check(db, sess, form, salt)
    IN  IF chk.outcome # "create"
        THEN [users |-> db, outcome |-> chk.outcome, response |-> chk.response]
        ELSE add_user_store(db, chk.row[1], committed)

\* edit_user, lines 600-637: the checks, and the row as the handler sets it
edit_user_check(db, sess, user_id, form) ==
    IF admin_gate(db, sess) # "ok"
    THEN [outcome |-> admin_gate(db, sess), row |-> None,
          response |-> admin_refusal(admin_gate(db, sess))]
    ELSE IF user_id \notin DOMAIN db
    THEN [outcome |-> "not_found", row |-> None, response |-> NotFound]
    ELSE IF db[user_id].username = <<"l","o","r","i","n","g","w">> /\ ~form.is_admin
    THEN [outcome |-> "protected", row |-> None,
          response |-> AdminPage("Cannot remove admin status from loringw.", "warning", None)]
    ELSE IF \E i \in DOMAIN db : i # user_id /\ db[i].username = form.username
    THEN [outcome |-> "username_taken", row |-> None,
          response |-> AdminPage("Username is already taken.", "danger", Some(form.username))]
    ELSE IF \E i \in DOMAIN db : i # user_id /\ db[i].email = form.email
    THEN [outcome |-> "email_taken", row |-> None,
          response |-> AdminPage("Email is already in use.", "danger", Some(form.email))]
    ELSE [outcome |-> "update",
          row |-> Some([db[user_id] EXCEPT !.username = form.username,
                                           !.email = form.email,
                                           !.is_active = form.is_active,
                                           !.is_admin = form.is_admin,
                                           !.is_approved = form.is_approved]),
          response |-> NoResponse]

\* lines 639-647: the commit of the changed columns; a failure is rolled back
\* and reported
edit_user_store(db, user_id, row, committed) ==
    LET changed == [db[user_id] EXCEPT !.username = row.username,
                                       !.email = row.email,
                                       !.is_active = row.is_active,
                                       !.is_admin = row.is_admin,
                                       !.is_approved = row.is_approved]
        pending == with_row(db, user_id, changed)
        ok == committed /\ unique_ok(pending)
    IN  [users |-> IF ok THEN commit(db, pending, TRUE)
                   ELSE rollback(commit(db, pending, FALSE), pending),
         outcome |-> IF ok THEN "ok" ELSE "commit_failed",
         response |->
             IF ok
             THEN AdminPage("User has been updated.", "success", Some(row.username))
             ELSE AdminPage("An error occurred while updating the user.", "danger", None)]

edit_user(db, sess, user_id, form, committed) ==
    LET chk == edit_user_check(db, sess, user_id, form)
    IN  IF chk.outcome # "update"
        THEN [users |-> db, outcome |-> chk.outcome, response |-> chk.response]
        ELSE edit_user_store(db, user_id, chk.row[1], committed)

\* an admin handler whose commit is not guarded: the changed table is stored,
\* or the exception leaves the handler and nothing is
unguarded_commit(db, pending, committed, response) ==
    [users |-> commit(db, pending, committed),
     outcome |-> IF committed THEN "ok" ELSE "commit_failed",
     response |-> IF committed THEN response
                  ELSE InternalServerError("PersistenceError")]

\* approve_user, lines 533-545
approve_user(db, sess, user_id, committed) ==
    IF admin_gate(db, sess) # "ok"
    THEN [users |-> db, outcome |-> admin_gate(db, sess),
          response |-> admin_refusal(admin_gate(db, sess))]
    ELSE IF user_id \notin DOMAIN db
    THEN [users |-> db, outcome |-> "not_found", response |-> NotFound]
    ELSE unguarded_commit(db, [db EXCEPT ![user_id].is_approved = TRUE], committed,
                          AdminPage("User has been approved.", "success",
                                    Some(db[user_id].username)))

\* toggle_admin, lines 550-569
toggle_admin(db, sess, user_id, committed) ==
    IF admin_gate(db, sess) # "ok"
    THEN [users |-> db, outcome |-> admin_gate(db, sess),
          response |-> admin_refusal(admin_gate(db, sess))]
    ELSE IF user_id \notin DOMAIN db
    THEN [users |-> db, outcome |-> "not_found", response |-> NotFound]
    ELSE IF user_id = sess.user_id[1]
    THEN [users |-> db, outcome |-> "self",
          response |-> AdminPage("You cannot change your own admin status.",
                                 "warning", None)]
    ELSE unguarded_commit(db, [db EXCEPT ![user_id].is_admin = ~@], committed,
                          AdminPage(IF db[user_id].is_admin
                                    THEN "Admin privileges revoked for"
                                    ELSE "Admin privileges granted for",
                                    "success", Some(db[user_id].username)))

\* delete_user, lines 574-593: the row is deleted; LoginAttempt rows carry a
\* username, not a reference to the user, and stay
delete_user_purging(db, log, sess, user_id, committed) ==
    IF admin_gate(db, sess) # "ok"
    THEN [users |-> db, login_attempts |-> log, outcome |-> admin_gate(db, sess),
          response |-> admin_refusal(admin_gate(db, sess))]
    ELSE IF user_id \notin DOMAIN db
    THEN [users |-> db, login_attempts |-> log, outcome |-> "not_found",
          response |-> NotFound]
    ELSE IF user_id = sess.user_id[1]
    THEN [users |-> db, login_attempts |-> log, outcome |-> "self",
          response |-> AdminPage("You cannot delete your own account.", "warning", None)]
    ELSE [login_attempts |->
              IF committed
              THEN SelectSeq(log, LAMBDA a : a.username # db[user_id].username)
              ELSE log]
         @@ unguarded_commit(db, without_row(db, user_id), committed,
                             AdminPage("User has been deleted.", "success",
                                       Some(db[user_id].username)))

delete_user(db, log, sess, user_id, committed) ==
    IF admin_gate(db, sess) # "ok"
    THEN [users |-> db, login_attempts |-> log, outcome |-> admin_gate(db, sess),
          response |-> admin_refusal(admin_gate(db, sess))]
    ELSE IF user_id \notin DOMAIN db
    THEN [users |-> db, login_attempts |-> log, outcome |-> "not_found",
          response |-> NotFound]
    ELSE IF user_id = sess.user_id[1]
    THEN [users |-> db, login_attempts |-> log, outcome |-> "self",
          response |-> AdminPage("You cannot delete your own account.", "warning", None)]
    ELSE [login_attempts |-> log]
         @@ unguarded_commit(db, without_row(db, user_id), committed,
                             AdminPage("User has been deleted.", "success",
                                       Some(db[user_id].username)))

(***************************************************************************)
(* The accounts, clients and inputs of the model.                          *)
(***************************************************************************)
Quad(s) == s \o s \o s \o s

Admin == <<"l","o","r","i","n","g","w">>
Alice == <<"a","l","i","c","e">>
Bob   == <<"b","o","b">>
Ghost == <<"g","h","o","s","t">>

PwAdmin == Quad(<<"R","o","0","t">>)
PwAlice == Quad(<<"A","a","1","!">>)
PwBob   == Quad(<<"B","o","b","3">>)
PwNew   == Quad(<<"N","e","w","2">>)
PwWrong == Quad(<<"W","r","0","n">>)
PwWeak  == Rep("a", 20)
PwShort == <<"S","h","0","r","t","!">>

NewUser(username, password, is_admin, is_approved) ==
    [username |-> username,
     email |-> username \o <<"@">>,
     password_hash |-> generate_password_hash(password, "s1"),
     failed_login_attempts |-> 0,
     locked_until |-> None,
     is_active |-> TRUE,
     is_admin |-> is_admin,
     is_approved |-> is_approved]

\* an administrator, an approved member and a registration awaiting approval
InitialUsers ==
    <<NewUser(Admin, PwAdmin, TRUE, TRUE),
      NewUser(Alice, PwAlice, FALSE, TRUE),
      NewUser(Bob, PwBob, FALSE, FALSE)>>

AdminId   == query_by_username(InitialUsers, Admin)[1]
TargetId  == query_by_username(InitialUsers, Alice)[1]
PendingId == query_by_username(InitialUsers, Bob)[1]
MissingId == Len(InitialUsers) + 1

Clients == {"c1", "c2"}

Request(c, form) ==
    [form |-> form, remote_addr |-> c, user_agent |-> "Mozilla"]

LoginForms ==
    {[username |-> Alice, password |-> p] : p \in {PwAlice, PwWrong, PwNew, <<>>}}
    \cup {[username |-> <<" ">> \o Alice \o <<" ">>, password |-> PwWrong]}
    \cup {[username |-> Bob, password |-> p] : p \in {PwBob, PwWrong}}
    \cup {[username |-> u, password |-> PwWrong] : u \in {Ghost, <<>>}}
    \cup {[username |-> Admin, password |-> PwAdmin]}

ResetForms ==
    {[new_password |-> Some(p), confirm_password |-> Some(p)] :
        p \in {PwNew, PwWeak, PwShort}}
    \cup {[new_password |-> Some(PwNew), confirm_password |-> Some(PwAlice)],
          [new_password |-> None, confirm_password |-> Some(PwNew)],
          [new_password |-> Some(PwNew), confirm_password |-> None]}

NoRequest ==
    [request |-> Request("c1", [username |-> <<>>, password |-> <<>>]),
     uid |-> None, user |-> None, row |-> None, outcome |-> "none",
     seen |-> None, lockSets0 |-> 0, response |-> NoResponse]

NoLast ==
    [op |-> "none", client |-> "c1", target |-> None, pre |-> None,
     matched |-> FALSE, outcome |-> "none", response |-> NoResponse]

\* the row with that id, if any
Row(db, uid) == IF uid # None /\ uid[1] \in DOMAIN db THEN Some(db[uid[1]]) ELSE None

\* the browser whose requests are handled one at a time
Browsers == {"c1"}

\* unset -> set transitions of the target's locked_until made by a step
LockSetsBy(db, db2) ==
    IF db[TargetId].locked_until = None /\ db2[TargetId].locked_until # None
    THEN 1 ELSE 0

Init ==
    /\ users = InitialUsers
    /\ login_attempts = <<>>
    /\ session = [c \in Clients |-> EmptySession]
    /\ now = 0
    /\ pc = [c \in Clients |-> "idle"]
    /\ req = [c \in Clients |-> NoRequest]
    /\ rowLock = [i \in DOMAIN InitialUsers |-> None]
    /\ started = [c \in Clients |-> 0]
    /\ last = NoLast
    /\ streak = 0
    /\ streakAt = 0
    /\ lockSets = 0
    /\ pw = <<>>
    /\ verdict = None

(***************************************************************************)
(* Requests handled one at a time.                                         *)
(***************************************************************************)
\* a wrong-password submission for the target account
WrongForTarget(db, form) ==
    /\ strip(form.username) = db[TargetId].username
    /\ form.password # <<>>
    /\ ~check_password(db[TargetId], form.password)

Clean(row) == row.failed_login_attempts = 0 /\ row.locked_until = None

Login(c, form, stored, committed) ==
    \E r \in {login(users, login_attempts, session[c], Request(c, form), now, stored,
                   committed)} :
        /\ stored => Len(login_attempts) < MaxLog
        /\ users' = r.users
        /\ login_attempts' = r.login_attempts
        /\ session' = [session EXCEPT ![c] = r.session]
        /\ last' = [op |-> "login", client |-> c, target |-> r.uid,
                    pre |-> Row(users, r.uid),
                    matched |-> (r.uid # None
                                 /\ check_password(users[r.uid[1]], form.password)),
                    outcome |-> r.outcome, response |-> r.response]
        /\ streak' = IF r.outcome = "commit_failed" THEN streak
                     ELSE IF WrongForTarget(users, form)
                     THEN (IF streak <= LockoutThreshold THEN streak + 1 ELSE streak)
                     ELSE IF Clean(r.users[TargetId]) THEN 0 ELSE streak
        /\ streakAt' = IF r.outcome = "commit_failed" THEN streakAt
                       ELSE IF WrongForTarget(users, form)
                       THEN (IF streak = LockoutThreshold - 1 THEN now ELSE streakAt)
                       ELSE IF Clean(r.users[TargetId]) THEN 0 ELSE streakAt
        /\ UNCHANGED <<now, pc, req, rowLock, started, lockSets, pw, verdict>>

Logout(c) ==
    \E r \in {logout(session[c])} :
        /\ session[c] # EmptySession
        /\ session' = [session EXCEPT ![c] = r.session]
        /\ last' = [op |-> "logout", client |-> c, target |-> None, pre |-> None,
                    matched |-> FALSE, outcome |-> "ok", response |-> r.response]
        /\ UNCHANGED <<users, login_attempts, now, pc, req, rowLock, started, streak, streakAt,
                       lockSets, pw, verdict>>

ResetPassword(c, user_id, form, salt, committed) ==
    \E r \in {reset_password(users, session[c], user_id, form, salt, committed)} :
        /\ users' = r.users
        /\ last' = [op |-> "reset_password", client |-> c, target |-> Some(user_id),
                    pre |-> Row(users, Some(user_id)), matched |-> FALSE,
                    outcome |-> r.outcome, response |-> r.response]
        /\ streak' = IF Clean(r.users[TargetId]) THEN 0 ELSE streak
        /\ streakAt' = IF Clean(r.users[TargetId]) THEN 0 ELSE streakAt
        /\ UNCHANGED <<login_attempts, session, now, pc, req, rowLock, started,
                       lockSets, pw, verdict>>

\* time passes
Tick ==
    /\ now + TickStep <= MaxNow
    /\ now' = now + TickStep
    /\ UNCHANGED <<users, login_attempts, session, pc, req, rowLock, started, last, streak,
                   streakAt, lockSets, pw, verdict>>

Next ==
    \/ \E c \in Browsers, form \in LoginForms, stored \in BOOLEAN, committed \in BOOLEAN :
          Login(c, form, stored, committed)
    \/ \E c \in Browsers : Logout(c)
    \/ \E c \in Browsers, user_id \in {TargetId, MissingId}, form \in ResetForms,
          salt \in Salts, committed \in BOOLEAN :
              ResetPassword(c, user_id, form, salt, committed)
    \/ Tick

Spec == Init /\ [][Next]_vars

(***************************************************************************)
(* Login requests handled concurrently, one worker per client. A request   *)
(* loads the user (line 194), verifies and mutates (213-214, 221-222),     *)
(* commits (215, 223), then audits and answers (216-220, 224-231).         *)
(***************************************************************************)
ConcForms == {[username |-> Alice, password |-> p] : p \in {PwAlice, PwWrong}}

\* the row a credential mutation applies to: the stored row, under a
\* row-level transactional update (sections 4.2 and 5), not the copy the
\* request loaded earlier
loaded_row(db, uid, user) == user

mutated_row(db, uid, user) == db[uid]

LoginStart(c, form, stored) ==
    \E gate \in {login_gate(users, form, now)} :
        /\ pc[c] \in {"idle", "done"}
        /\ started[c] < MaxRequests
        /\ started' = [started EXCEPT ![c] = @ + 1]
        /\ IF gate.outcome = "verify"
           THEN /\ pc' = [pc EXCEPT ![c] = "verify"]
                /\ req' = [req EXCEPT ![c] =
                              [request |-> Request(c, form), uid |-> gate.uid,
                               user |-> Some(users[gate.uid[1]]), row |-> None,
                               outcome |-> "verify",
                               seen |-> Some(users[gate.uid[1]].failed_login_attempts),
                               lockSets0 |-> lockSets,
                               response |-> NoResponse]]
                /\ stored
                /\ UNCHANGED login_attempts
           ELSE \E r \in {login_reject(gate, users, login_attempts,
                                       Request(c, form), stored)} :
                /\ stored => Len(login_attempts) < MaxLog
                /\ pc' = [pc EXCEPT ![c] = "done"]
                /\ req' = [req EXCEPT ![c] =
                              [request |-> Request(c, form), uid |-> gate.uid,
                               user |-> None, row |-> None,
                               outcome |-> gate.outcome, seen |-> None,
                               lockSets0 |-> lockSets,
                               response |-> r.response]]
                /\ login_attempts' = r.login_attempts
        /\ UNCHANGED <<users, session, now, rowLock, last, streak, streakAt,
                       lockSets, pw, verdict>>

\* check_password on the loaded user, then reset_failed_logins or
\* increment_failed_login; the update holds the row until the commit
LoginMutate(c) ==
    /\ pc[c] = "verify"
    /\ rowLock[req[c].uid[1]] = None
    /\ \E v \in {login_verify(req[c].user[1],
                              mutated_row(users, req[c].uid[1], req[c].user[1]),
                              req[c].request.form.password, now)} :
           req' = [req EXCEPT ![c].row = Some(v.row), ![c].outcome = v.outcome]
    /\ rowLock' = [rowLock EXCEPT ![req[c].uid[1]] = Some(c)]
    /\ pc' = [pc EXCEPT ![c] = "commit"]
    /\ UNCHANGED <<users, login_attempts, session, now, started, last, streak,
                   streakAt, lockSets, pw, verdict>>

\* db.session.commit(): the row is stored, or the commit raises and the
\* request ends there
LoginCommit(c, committed) ==
    /\ pc[c] = "commit"
    /\ users' = commit(users, [users EXCEPT ![req[c].uid[1]] = req[c].row[1]], committed)
    /\ rowLock' = [rowLock EXCEPT ![req[c].uid[1]] = None]
    /\ lockSets' = lockSets + LockSetsBy(users, users')
    /\ pc' = [pc EXCEPT ![c] = IF committed THEN "finish" ELSE "done"]
    /\ req' = IF committed THEN req
              ELSE [req EXCEPT ![c].outcome = "commit_failed",
                               ![c].response = InternalServerError("PersistenceError"),
                               ![c].user = None, ![c].row = None]
    /\ UNCHANGED <<login_attempts, session, now, started, last, streak,
                   streakAt, pw, verdict>>

\* the session, the audit record and the answer
LoginFinish(c, stored) ==
    /\ pc[c] = "finish"
    /\ stored => Len(login_attempts) < MaxLog
    /\ \E f \in {login_finish(req[c].outcome, users[req[c].uid[1]], req[c].uid[1],
                              session[c], login_attempts, req[c].request, stored)} :
           /\ session' = [session EXCEPT ![c] = f.session]
           /\ login_attempts' = f.login_attempts
           /\ req' = [req EXCEPT ![c].response = f.response,
                                  ![c].user = None, ![c].row = None]
    /\ pc' = [pc EXCEPT ![c] = "done"]
    /\ UNCHANGED <<users, now, rowLock, started, last, streak, streakAt, lockSets,
                   pw, verdict>>

NextConc ==
    \/ \E c \in Clients, form \in ConcForms, stored \in BOOLEAN : LoginStart(c, form, stored)
    \/ \E c \in Clients : LoginMutate(c)
    \/ \E c \in Clients, committed \in BOOLEAN : LoginCommit(c, committed)
    \/ \E c \in Clients, stored \in BOOLEAN : LoginFinish(c, stored)
    \/ Tick

\* the target account after any number of earlier failed logins short of the
\* lockout, none of them in flight any more
InitConc ==
    /\ \E n \in 0..(LockoutThreshold - 1) :
           users = [InitialUsers EXCEPT ![TargetId].failed_login_attempts = n]
    /\ login_attempts = <<>>
    /\ session = [c \in Clients |-> EmptySession]
    /\ now = 0
    /\ pc = [c \in Clients |-> "idle"]
    /\ req = [c \in Clients |-> NoRequest]
    /\ rowLock = [i \in DOMAIN InitialUsers |-> None]
    /\ started = [c \in Clients |-> 0]
    /\ last = NoLast
    /\ streak = 0
    /\ streakAt = 0
    /\ lockSets = 0
    /\ pw = <<>>
    /\ verdict = None

SpecConc == InitConc /\ [][NextConc]_vars

(***************************************************************************)
(* Every operation on accounts, handled one request at a time: login,      *)
(* logout, registration and the administrator's approve, toggle, edit,     *)
(* delete, add and password reset.                                         *)
(***************************************************************************)
Carol == <<"c","a","r","o","l">>
Dave  == <<"d","a","v","e">>

EmailOf(username) == username \o <<"@">>

RegisterForm(username, email, password, password_confirm, captcha, captcha_answer) ==
    [username |-> username, email |-> email, password |-> password,
     password_confirm |-> password_confirm,
     captcha |-> captcha, captcha_answer |-> captcha_answer]

\* every way a registration is refused, and one that passes the checks
RegisterForms ==
    {RegisterForm(u, EmailOf(Carol), PwNew, PwNew, <<"7">>, <<"7">>) : u \in {Carol, Alice}}
    \cup {RegisterForm(Carol, e, PwNew, PwNew, <<"7">>, <<"7">>) : e \in {EmailOf(Alice), <<>>}}
    \cup {RegisterForm(Carol, EmailOf(Carol), p, p, <<"7">>, <<"7">>) : p \in {PwWeak, PwShort}}
    \cup {RegisterForm(Carol, EmailOf(Carol), PwNew, PwWrong, <<"7">>, <<"7">>)}
    \cup {RegisterForm(Carol, EmailOf(Carol), PwNew, PwNew, k, <<"7">>) :
             k \in {<<>>, <<"x">>, <<"8">>}}

AddForm(username, email, password, confirm_password) ==
    [username |-> username, email |-> email, password |-> password,
     confirm_password |-> confirm_password,
     is_active |-> TRUE, is_admin |-> FALSE, is_approved |-> TRUE]

AddForms ==
    {AddForm(u, EmailOf(Carol), PwNew, PwNew) : u \in {Carol, Alice, <<>>}}
    \cup {AddForm(Carol, EmailOf(Alice), PwNew, PwNew),
          AddForm(Carol, EmailOf(Carol), PwNew, PwWrong),
          AddForm(Carol, EmailOf(Carol), PwWeak, PwWeak),
          AddForm(Carol, EmailOf(Carol), PwShort, PwShort)}

EditForm(username, email, is_admin, is_approved) ==
    [username |-> username, email |-> email,
     is_active |-> TRUE, is_admin |-> is_admin, is_approved |-> is_approved]

EditForms ==
    {EditForm(Bob, EmailOf(Bob), FALSE, TRUE),
     EditForm(Alice, EmailOf(Bob), FALSE, TRUE),
     EditForm(Bob, EmailOf(Alice), FALSE, TRUE)}

AccountLoginForms ==
    {[username |-> Alice, password |-> p] : p \in {PwAlice, PwWrong}}
    \cup {[username |-> Admin, password |-> PwAdmin],
          [username |-> Carol, password |-> PwNew]}

AccountResetForms ==
    {[new_password |-> Some(p), confirm_password |-> Some(p)] : p \in {PwAlice, PwWeak}}

\* the account a registration or add_user creates first
CreatedId == next_user_id(InitialUsers)

\* failed logins followed from a clean account; from one failure short of
\* the lockout they are followed without bound
MaxFailures == 1

FailuresWithinBound(db) ==
    \/ db[TargetId].failed_login_attempts < MaxFailures
    \/ db[TargetId].failed_login_attempts >= LockoutThreshold - 1

\* the last request: its operation and how it ended, or that it was refused
\* before it changed anything
Slim(op, outcome) ==
    IF outcome \in {"ok", "success", "wrong_password", "commit_failed"}
    THEN [op |-> op, client |-> "c1", target |-> None, pre |-> None,
          matched |-> FALSE, outcome |-> outcome, response |-> NoResponse]
    ELSE [op |-> "refused", client |-> "c1", target |-> None, pre |-> None,
          matched |-> FALSE, outcome |-> "refused", response |-> NoResponse]

AccountLogin(c, form, stored, committed) ==
    \E r \in {login(users, login_attempts, session[c], Request(c, form), now, stored,
                   committed)} :
        /\ stored => Len(login_attempts) < MaxLog
        /\ WrongForTarget(users, form) => FailuresWithinBound(users)
        /\ users' = r.users
        /\ login_attempts' = r.login_attempts
        /\ session' = [session EXCEPT ![c] = r.session]
        /\ last' = IF r.outcome \in {"success", "wrong_password"}
                    THEN [Slim("login", r.outcome) EXCEPT
                             !.target = r.uid,
                             !.pre = Row(users, r.uid),
                             !.matched = check_password(users[r.uid[1]], form.password)]
                    ELSE Slim("login", r.outcome)
        /\ UNCHANGED <<now, pc, req, rowLock, started, streak, streakAt, lockSets,
                       pw, verdict>>

AccountLogout(c) ==
    \E r \in {logout(session[c])} :
        /\ session[c] # EmptySession
        /\ session' = [session EXCEPT ![c] = r.session]
        /\ last' = Slim("logout", "ok")
        /\ UNCHANGED <<users, login_attempts, now, pc, req, rowLock, started, streak,
                       streakAt, lockSets, pw, verdict>>

AccountReset(c, user_id, form, salt, committed) ==
    \E r \in {reset_password(users, session[c], user_id, form, salt, committed)} :
        /\ users' = r.users
        /\ last' = Slim("reset_password", r.outcome)
        /\ UNCHANGED <<login_attempts, session, now, pc, req, rowLock, started, streak,
                       streakAt, lockSets, pw, verdict>>

Register(c, form, salt, committed) ==
    \E r \in {register(users, form, salt, committed)} :
        /\ users' = r.users
        /\ last' = Slim("register", r.outcome)
        /\ UNCHANGED <<login_attempts, session, now, pc, req, rowLock, started, streak,
                       streakAt, lockSets, pw, verdict>>

AddUser(c, form, salt, committed) ==
    \E r \in {add_user(users, session[c], form, salt, committed)} :
        /\ users' = r.users
        /\ last' = Slim("add_user", r.outcome)
        /\ UNCHANGED <<login_attempts, session, now, pc, req, rowLock, started, streak,
                       streakAt, lockSets, pw, verdict>>

EditUser(c, user_id, form, committed) ==
    \E r \in {edit_user(users, session[c], user_id, form, committed)} :
        /\ users' = r.users
        /\ last' = Slim("edit_user", r.outcome)
        /\ UNCHANGED <<login_attempts, session, now, pc, req, rowLock, started, streak,
                       streakAt, lockSets, pw, verdict>>

ApproveUser(c, user_id, committed) ==
    \E r \in {approve_user(users, session[c], user_id, committed)} :
        /\ users' = r.users
        /\ last' = Slim("approve_user", r.outcome)
        /\ UNCHANGED <<login_attempts, session, now, pc, req, rowLock, started, streak,
                       streakAt, lockSets, pw, verdict>>

ToggleAdmin(c, user_id, committed) ==
    \E r \in {toggle_admin(users, session[c], user_id, committed)} :
        /\ users' = r.users
        /\ last' = Slim("toggle_admin", r.outcome)
        /\ UNCHANGED <<login_attempts, session, now, pc, req, rowLock, started, streak,
                       streakAt, lockSets, pw, verdict>>

DeleteUser(c, user_id, committed) ==
    \E r \in {delete_user(users, login_attempts, session[c], user_id, committed)} :
        /\ users' = r.users
        /\ login_attempts' = r.login_attempts
        /\ last' = Slim("delete_user", r.outcome)
        /\ UNCHANGED <<session, now, pc, req, rowLock, started, streak,
                       streakAt, lockSets, pw, verdict>>

\* the requests of the accounts model: the handlers refuse without a change
\* of state, so one refused request of each handler is followed
NextAccounts ==
    \/ \E c \in Browsers, form \in AccountLoginForms, stored \in BOOLEAN,
          committed \in BOOLEAN : AccountLogin(c, form, stored, committed)
    \/ \E c \in Browsers : AccountLogout(c)
    \/ \E c \in Browsers, form \in AccountResetForms, committed \in BOOLEAN :
          AccountReset(c, TargetId, form, "s1", committed)
    \/ \E form \in {RegisterForm(u, EmailOf(Carol), PwNew, PwNew, <<"7">>, <<"7">>) :
                       u \in {Carol, Alice}}, committed \in BOOLEAN :
          Register("c1", form, "s1", committed)
    \/ \E c \in Browsers, form \in {AddForm(Carol, EmailOf(Carol), PwNew, PwNew)},
          committed \in BOOLEAN : AddUser(c, form, "s1", committed)
    \/ \E c \in Browsers, user_id \in {PendingId}, form \in EditForms,
          committed \in BOOLEAN : EditUser(c, user_id, form, committed)
    \/ \E c \in Browsers, user_id \in {PendingId}, committed \in BOOLEAN :
          ApproveUser(c, user_id, committed)
    \/ \E c \in Browsers, user_id \in {AdminId, CreatedId}, committed \in BOOLEAN :
          ToggleAdmin(c, user_id, committed)
    \/ \E c \in Browsers, user_id \in {AdminId, CreatedId},
          committed \in BOOLEAN : DeleteUser(c, user_id, committed)
    \/ Tick

\* the target account locked by a tenth failed login at time 0, and the
\* clock half way through the lock
InitAccounts ==
    /\ users = [InitialUsers EXCEPT
                   ![TargetId] = increment_failed_login(
                       [@ EXCEPT !.failed_login_attempts = LockoutThreshold - 1], 0)]
    /\ login_attempts = <<>>
    /\ session = [c \in Clients |-> EmptySession]
    /\ now = TickStep
    /\ pc = [c \in Clients |-> "idle"]
    /\ req = [c \in Clients |-> NoRequest]
    /\ rowLock = [i \in DOMAIN InitialUsers |-> None]
    /\ started = [c \in Clients |-> 0]
    /\ last = NoLast
    /\ streak = 0
    /\ streakAt = 0
    /\ lockSets = 0
    /\ pw = <<>>
    /\ verdict = None

SpecAccounts == InitAccounts /\ [][NextAccounts]_vars

(***************************************************************************)
(* Requests that write usernames and emails, handled concurrently, one     *)
(* worker per client: register, add_user and edit_user query for the       *)
(* username and email first (lines 150-156, 756-762, 620-630) and commit   *)
(* the row later (169, 776, 640).                                          *)
(***************************************************************************)
AdminSession == [user_id |-> Some(AdminId), username |-> Some(Admin)]

WriteRequests ==
    {[op |-> "register", user_id |-> None,
      form |-> RegisterForm(Carol, EmailOf(Carol), PwNew, PwNew, <<"7">>, <<"7">>)],
     [op |-> "add_user", user_id |-> None,
      form |-> AddForm(Carol, EmailOf(Dave), PwNew, PwNew)],
     [op |-> "add_user", user_id |-> None,
      form |-> AddForm(Dave, EmailOf(Carol), PwNew, PwNew)],
     [op |-> "edit_user", user_id |-> Some(PendingId),
      form |-> EditForm(Carol, EmailOf(Bob), FALSE, TRUE)],
     [op |-> "edit_user", user_id |-> Some(TargetId),
      form |-> EditForm(Alice, EmailOf(Dave), FALSE, TRUE)],
     [op |-> "edit_user", user_id |-> Some(TargetId),
      form |-> EditForm(Bob, EmailOf(Alice), FALSE, TRUE)]}

\* the queries of the handler, on the table as it is now
write_check(db, sess, w) ==
    CASE w.op = "register" -> register_check(db, w.form, "s1")
      [] w.op = "add_user" -> add_user_check(db, sess, w.form, "s1")
      [] w.op = "edit_user" -> edit_user_check(db, sess, w.user_id[1], w.form)

\* the commit of the handler, on the table as it is then
write_store(db, w, row, committed) ==
    CASE w.op = "register" -> register_store(db, row, committed)
      [] w.op = "add_user" -> add_user_store(db, row, committed)
      [] w.op = "edit_user" -> edit_user_store(db, w.user_id[1], row, committed)

WriteStart(c, w) ==
    \E chk \in {write_check(users, session[c], w)} :
        /\ pc[c] \in {"idle", "done"}
        /\ started[c] < MaxRequests
        /\ started' = [started EXCEPT ![c] = @ + 1]
        /\ pc' = [pc EXCEPT ![c] = IF chk.row # None THEN "store" ELSE "done"]
        /\ req' = [req EXCEPT ![c] =
                      [write |-> w, row |-> chk.row, checked |-> chk.outcome,
                       outcome |-> IF chk.row # None THEN "none" ELSE chk.outcome]]
        /\ UNCHANGED <<users, login_attempts, session, now, rowLock, last, streak,
                       streakAt, lockSets, pw, verdict>>

WriteStore(c, committed) ==
    /\ pc[c] = "store"
    /\ \E r \in {write_store(users, req[c].write, req[c].row[1], committed)} :
           /\ users' = r.users
           /\ req' = [req EXCEPT ![c].outcome = r.outcome]
    /\ pc' = [pc EXCEPT ![c] = "done"]
    /\ UNCHANGED <<login_attempts, session, now, rowLock, started, last, streak,
                   streakAt, lockSets, pw, verdict>>

NextUnique ==
    \/ \E c \in Clients, w \in WriteRequests : WriteStart(c, w)
    \/ \E c \in Clients, committed \in BOOLEAN : WriteStore(c, committed)

\* both browsers hold the administrator's session
InitUnique ==
    /\ users = InitialUsers
    /\ login_attempts = <<>>
    /\ session = [c \in Clients |-> AdminSession]
    /\ now = 0
    /\ pc = [c \in Clients |-> "idle"]
    /\ req = [c \in Clients |-> NoRequest]
    /\ rowLock = [i \in DOMAIN InitialUsers |-> None]
    /\ started = [c \in Clients |-> 0]
    /\ last = NoLast
    /\ streak = 0
    /\ streakAt = 0
    /\ lockSets = 0
    /\ pw = <<>>
    /\ verdict = None

SpecUnique == InitUnique /\ [][NextUnique]_vars

(***************************************************************************)
(* Two browsers and the life of an account: registration, the              *)
(* administrator's requests (approve, toggle, delete, edit, add, password  *)
(* reset), login and logout. A browser keeps its session cookie whatever   *)
(* happens to the account it names.                                        *)
(***************************************************************************)
PrivilegedCall(op, user_id, form) == [op |-> op, user_id |-> user_id, form |-> form]

SameReset(p) == [new_password |-> Some(p), confirm_password |-> Some(p)]

\* the administrator's requests the life-cycle model follows
PrivilegedCalls ==
    {PrivilegedCall("approve_user", id, None) : id \in {PendingId, CreatedId}}
    \cup {PrivilegedCall("toggle_admin", CreatedId, None),
          PrivilegedCall("delete_user", CreatedId, None),
          PrivilegedCall("edit_user", CreatedId,
                         Some(EditForm(Carol, EmailOf(Carol), FALSE, TRUE))),
          PrivilegedCall("reset_password", TargetId, Some(SameReset(PwAlice))),
          PrivilegedCall("add_user", MissingId,
                         Some(AddForm(Carol, EmailOf(Carol), PwNew, PwNew)))}

\* the handler the route of a privileged request dispatches to
privileged(db, log, sess, call, salt, committed) ==
    CASE call.op = "approve_user" ->
             [login_attempts |-> log] @@ approve_user(db, sess, call.user_id, committed)
      [] call.op = "toggle_admin" ->
             [login_attempts |-> log] @@ toggle_admin(db, sess, call.user_id, committed)
      [] call.op = "delete_user" ->
             delete_user(db, log, sess, call.user_id, committed)
      [] call.op = "edit_user" ->
             [login_attempts |-> log]
             @@ edit_user(db, sess, call.user_id, call.form[1], committed)
      [] call.op = "reset_password" ->
             [login_attempts |-> log]
             @@ reset_password(db, sess, call.user_id, call.form[1], salt, committed)
      [] call.op = "add_user" ->
             [login_attempts |-> log] @@ add_user(db, sess, call.form[1], salt, committed)

PrivilegedRequest(c, call, committed) ==
    \E r \in {privileged(users, login_attempts, session[c], call, "s1", committed)} :
        /\ users' = r.users
        /\ login_attempts' = r.login_attempts
        /\ last' = [op |-> call.op, client |-> c, target |-> Some(call.user_id),
                    pre |-> Row(users, Some(call.user_id)), matched |-> FALSE,
                    outcome |-> r.outcome, response |-> r.response]
        /\ UNCHANGED <<session, now, pc, req, rowLock, started, streak, streakAt,
                       lockSets, pw, verdict>>

LifecycleLoginForms ==
    {[username |-> Admin, password |-> PwAdmin],
     [username |-> Carol, password |-> PwNew]}

NextLifecycle ==
    \/ \E c \in Clients, form \in LifecycleLoginForms, stored \in BOOLEAN :
          Login(c, form, stored, TRUE)
    \/ \E c \in Clients : Logout(c)
    \/ \E c \in Clients, committed \in BOOLEAN :
          Register(c, RegisterForm(Carol, EmailOf(Carol), PwNew, PwNew, <<"7">>, <<"7">>),
                   "s1", committed)
    \/ \E c \in Clients, call \in PrivilegedCalls, committed \in BOOLEAN :
          PrivilegedRequest(c, call, committed)

SpecLifecycle == Init /\ [][NextLifecycle]_vars

(***************************************************************************)

(* Registration requests with every pairing of CAPTCHA fields: the answer  *)
(* the visitor typed and the expected answer the form carries.             *)
(***************************************************************************)
CaptchaValues ==
    {<<>>, <<" ">>, <<"7">>, <<" ","7"," ">>, <<"0","7">>, <<"+","7">>, <<"-","7">>,
     <<"8">>, <<"x">>, <<"7","x">>, <<"-">>}

CaptchaForms ==
    {RegisterForm(Carol, EmailOf(Carol), PwNew, PwNew, k, a) :
        k \in CaptchaValues, a \in CaptchaValues}

RegisterPost(c, form, committed) ==
    \E r \in {register(users, form, "s1", committed)} :
        /\ users' = r.users
        /\ req' = [req EXCEPT ![c] = [NoRequest EXCEPT !.request = Request(c, form),
                                                       !.outcome = r.outcome]]
        /\ last' = [op |-> "register", client |-> c, target |-> None, pre |-> None,
                    matched |-> FALSE, outcome |-> r.outcome, response |-> r.response]
        /\ UNCHANGED <<login_attempts, session, now, pc, rowLock, started, streak,
                       streakAt, lockSets, pw, verdict>>

NextCaptcha ==
    \E c \in Browsers, form \in CaptchaForms, committed \in BOOLEAN :
        RegisterPost(c, form, committed)

SpecCaptcha == Init /\ [][NextCaptcha]_vars

(***************************************************************************)

(* validate_password applied to passwords over a small alphabet: a run of  *)
(* one character followed by a short tail of any characters.               *)
(***************************************************************************)
PolicyAlphabet == {"A", "a", "1", "!", "~"}

PolicyPasswords ==
    {Rep(c, n) \o tail :
        c \in PolicyAlphabet, n \in 0..MaxPad,
        tail \in UNION {[1..k -> PolicyAlphabet] : k \in 0..MaxTail}}

InitPolicy ==
    /\ users = InitialUsers
    /\ login_attempts = <<>>
    /\ session = [c \in Clients |-> EmptySession]
    /\ now = 0
    /\ pc = [c \in Clients |-> "idle"]
    /\ req = [c \in Clients |-> NoRequest]
    /\ rowLock = [i \in DOMAIN InitialUsers |-> None]
    /\ started = [c \in Clients |-> 0]
    /\ last = NoLast
    /\ streak = 0
    /\ streakAt = 0
    /\ lockSets = 0
    /\ pw \in PolicyPasswords
    /\ verdict = None

Validate ==
    /\ verdict = None
    /\ verdict' = Some(validate_password(pw))
    /\ UNCHANGED <<users, login_attempts, session, now, pc, req, rowLock, started,
                   last, streak, streakAt, lockSets, pw>>

NextPolicy == Validate

SpecPolicy == InitPolicy /\ [][NextPolicy]_vars

(***************************************************************************)
(* Properties.                                                             *)
(***************************************************************************)
Target == users[TargetId]

\* the account a login form names, if any
Named(form) == query_by_username(users, strip(form.username))

\* locked at attempt time: lockedUntil set and now < lockedUntil
LockedNow(row) == row.locked_until # None /\ now < row.locked_until[1]

\* C1: from a clean approved account, nine consecutive wrong-password
\* logins leave it unlocked with failed_login_attempts = 9, and the tenth,
\* at time t, sets locked_until = t + 30 minutes.
C1_NineThenLock ==
    /\ streak \in 0..9 =>
           /\ Target.failed_login_attempts = streak
           /\ Target.locked_until = None
    /\ streak = 10 =>
           /\ Target.failed_login_attempts = 10
           /\ Target.locked_until = Some(streakAt + 30)

C1_Witness ==
    /\ streak = 10
    /\ streakAt = TickStep
    /\ last.op = "login" /\ last.outcome = "wrong_password"
    /\ last.pre # None /\ last.pre[1].failed_login_attempts = 9
    /\ Target.locked_until = Some(TickStep + 30)

\* both clients' logins were wrong-password logins that loaded the target at
\* failed_login_attempts = 9, before either committed, and both have committed
BothSawNine ==
    \A c \in Clients :
        /\ pc[c] \in {"finish", "done"}
        /\ req[c].uid = Some(TargetId)
        /\ req[c].outcome = "wrong_password"
        /\ req[c].seen = Some(9)
        /\ \A d \in Clients : req[d].lockSets0 = req[c].lockSets0

C3_LockedShortCircuit ==
    \A c \in Browsers, form \in LoginForms, stored \in BOOLEAN :
        \A uid \in {Named(form)} :
            (/\ form.password # <<>>
             /\ uid # None
             /\ LockedNow(users[uid[1]]))
            => \A r \in {login(users, login_attempts, session[c], Request(c, form),
                                now, stored, TRUE)} :
                   /\ r.users = users
                   /\ r.session = session[c]
                   /\ r.response.status = 200
                   /\ r.response.flash[1].arg = users[uid[1]].locked_until

C3_Witness ==
    /\ last.op = "login" /\ last.outcome = "locked" /\ last.matched
    /\ last.pre = Some(Target)
    /\ LockedNow(Target)
    /\ session[last.client] = EmptySession

\* C4: a login that succeeds (approved, not locked, password matches)
\* leaves failed_login_attempts = 0 and locked_until cleared whatever they
\* were before, also a count of 10 or more with an expired lock.
C4_SuccessResets ==
    \A c \in Browsers, form \in LoginForms, stored \in BOOLEAN :
        \A uid \in {Named(form)} :
            (/\ form.password # <<>>
             /\ uid # None
             /\ users[uid[1]].is_approved
             /\ ~LockedNow(users[uid[1]])
             /\ check_password_hash(users[uid[1]].password_hash, form.password))
            => \A r \in {login(users, login_attempts, session[c], Request(c, form),
                                now, stored, TRUE)} :
                   /\ r.users[uid[1]].failed_login_attempts = 0
                   /\ r.users[uid[1]].locked_until = None
                   /\ r.session.user_id = uid
                   /\ r.response.status = 302

C4_Witness ==
    /\ last.op = "login" /\ last.outcome = "success"
    /\ last.target = Some(TargetId)
    /\ last.pre[1].failed_login_attempts >= 10
    /\ last.pre[1].locked_until # None
    /\ Target.failed_login_attempts = 0 /\ Target.locked_until = None

\* C5: every login with a non-empty username and password that ends as
\* success, wrong password, unknown username or pending approval appends
\* exactly one LoginAttempt carrying the username, with success set only for
\* the success outcome (while the audit store accepts the write).
C5_OneRecordPerAttempt ==
    [][\A c \in Browsers, form \in LoginForms :
          (/\ Login(c, form, TRUE, TRUE)
           /\ last'.outcome \in {"success", "wrong_password", "not_found", "pending"})
          => /\ Len(login_attempts') = Len(login_attempts) + 1
             /\ SubSeq(login_attempts', 1, Len(login_attempts)) = login_attempts
             /\ login_attempts'[Len(login_attempts')].username = strip(form.username)
             /\ login_attempts'[Len(login_attempts')].success
                    = (last'.outcome = "success")]_vars

\* C6: a login rejected because the account is locked is still audited: it
\* appends a LoginAttempt with success = FALSE.
C6_LockedIsAudited ==
    [][\A c \in Browsers, form \in LoginForms :
          (/\ Login(c, form, TRUE, TRUE)
           /\ last'.outcome = "locked")
          => /\ Len(login_attempts') = Len(login_attempts) + 1
             /\ login_attempts'[Len(login_attempts')].success = FALSE]_vars

\* C7: the response to a login for a username that matches no account is
\* the response to a wrong password on an approved, unlocked account: the
\* two runs, differing only in whether the username exists, answer alike.
C7_NoEnumeration ==
    \A c \in Browsers, stored \in BOOLEAN :
        (Target.is_approved /\ ~LockedNow(Target)
         /\ ~check_password_hash(Target.password_hash, PwWrong))
        => login(users, login_attempts, session[c],
                 Request(c, [username |-> Ghost, password |-> PwWrong]),
                 now, stored, TRUE).response
           = login(users, login_attempts, session[c],
                   Request(c, [username |-> Target.username, password |-> PwWrong]),
                   now, stored, TRUE).response

CategoryOf(ch) ==
    CASE ch \in {"A"} -> "uppercase"
      [] ch \in {"a"} -> "lowercase"
      [] ch \in {"1"} -> "digit"
      [] OTHER -> "symbol"

CategoriesIn(p) == {CategoryOf(p[i]) : i \in 1..Len(p)}

\* C9: validate_password accepts a password iff it has at least 16
\* characters and at least 3 of the 4 categories uppercase, lowercase, digit,
\* symbol occur in it; a shorter password is rejected as too short whatever
\* its categories.
C9_PolicyIff ==
    verdict # None =>
        /\ verdict[1][1] = (Len(pw) >= 16 /\ Cardinality(CategoriesIn(pw)) >= 3)
        /\ Len(pw) < 16 => verdict[1] = <<FALSE, TooShortMsg>>

C9_Witness ==
    /\ verdict = Some(<<TRUE, "">>)
    /\ Len(pw) = 16
    /\ CategoriesIn(pw) = {"lowercase", "digit", "symbol"}

\* C10: a failed audit write does not abort the login that triggered it:
\* the response, the session and the accounts are those of the same login
\* with the audit write succeeding, and no error is surfaced for it.
C10_AuditFailureSwallowed ==
    \A c \in Browsers, form \in LoginForms :
        \A ok \in {login(users, login_attempts, session[c], Request(c, form),
                          now, TRUE, TRUE)} :
            \A failed \in {login(users, login_attempts, session[c], Request(c, form),
                                  now, FALSE, TRUE)} :
                /\ failed.response = ok.response
                /\ failed.session = ok.session
                /\ failed.users = ok.users
                /\ failed.login_attempts = login_attempts
                /\ (failed.outcome \in {"success", "wrong_password"}
                        => failed.response.status # 500)

C10_Witness ==
    /\ last.op = "login" /\ last.outcome = "success"
    /\ login_attempts = <<>>
    /\ session[last.client].user_id = last.target
    /\ last.response.status = 302

\* C11: when the commit of a credential mutation fails (after
\* increment_failed_login or reset_failed_logins in login, after the update
\* in reset_password), every stored account, with its password_hash,
\* failed_login_attempts and locked_until, is what it was before the request.
C11_CommitAllOrNothing ==
    /\ \A c \in Browsers, form \in LoginForms, stored \in BOOLEAN :
           \A r \in {login(users, login_attempts, session[c], Request(c, form),
                           now, stored, FALSE)} :
               r.outcome = "commit_failed" => r.users = users
    /\ \A c \in Browsers, form \in ResetForms, salt \in Salts :
           \A r \in {reset_password(users, session[c], TargetId, form, salt, FALSE)} :
               r.outcome = "commit_failed" => r.users = users

C11_Witness ==
    /\ last.op = "reset_password" /\ last.outcome = "commit_failed"
    /\ last.pre = Some(Target)
    /\ LockedNow(Target)
    /\ Target.failed_login_attempts >= 10
    /\ check_password(Target, PwAlice)

\* the checks the registration of a form must fail: a missing field, a
\* CAPTCHA field missing, not an integer or not the answer, a password the
\* policy rejects, a confirmation that differs, a username or email taken
RegistrationMustFail(db, form) ==
    \/ strip(form.username) = <<>> \/ strip(form.email) = <<>> \/ form.password = <<>>
    \/ strip(form.captcha) = <<>> \/ strip(form.captcha_answer) = <<>>
    \/ int(strip(form.captcha)) = None \/ int(strip(form.captcha_answer)) = None
    \/ int(strip(form.captcha)) # int(strip(form.captcha_answer))
    \/ ~validate_password(form.password)[1]
    \/ form.password # form.password_confirm
    \/ \E i \in DOMAIN db : db[i].username = strip(form.username)
    \/ \E i \in DOMAIN db : db[i].email = strip(form.email)

\* C12: a registration that fails a check, or whose commit fails, leaves the
\* persisted accounts as they were: no account is added and none is changed.
C12_FailedRegistrationPersistsNothing ==
    \A form \in RegisterForms, salt \in {"s1"}, committed \in BOOLEAN :
        \A r \in {register(users, form, salt, committed)} :
            (RegistrationMustFail(users, form) \/ ~committed \/ r.outcome # "ok")
                => r.users = users

C12_Witness ==
    /\ last.op = "register" /\ last.outcome = "commit_failed"
    /\ query_by_username(users, Carol) = None
    /\ DOMAIN users = DOMAIN InitialUsers

\* C13: a login for an existing account that is not approved is answered
\* with the pending-approval page whatever the password: no session is
\* established and the account's failed_login_attempts and locked_until stay.
C13_PendingAnswered ==
    \A c \in Browsers, form \in LoginForms, stored \in BOOLEAN :
        \A uid \in {Named(form)} :
            (/\ form.password # <<>>
             /\ uid # None
             /\ ~users[uid[1]].is_approved)
            => \A r \in {login(users, login_attempts, session[c], Request(c, form),
                                now, stored, TRUE)} :
                   /\ r.response = render_template("nasa_login.html",
                          <<Flash("Your account is pending admin approval.",
                                  "warning", None)>>)
                   /\ r.session = session[c]
                   /\ r.users = users

C15_AuditAppendOnly ==
    [][/\ Len(login_attempts') >= Len(login_attempts)
       /\ SubSeq(login_attempts', 1, Len(login_attempts)) = login_attempts]_vars

C15_Witness ==
    /\ last.op = "delete_user" /\ last.outcome = "ok"
    /\ query_by_username(users, Carol) = None
    /\ login_attempts # <<>>
    /\ login_attempts[1].username = Carol

\* C16: failed_login_attempts is never negative, and a step lowers it only
\* to 0 and only as a successful login or an administrator's password reset;
\* no other operation, nor the passage of time, lowers it.
C16_CountLoweredOnlyByResets ==
    /\ [](\A id \in DOMAIN users : users[id].failed_login_attempts >= 0)
    /\ [][\A id \in DOMAIN users \cap DOMAIN users' :
             users'[id].failed_login_attempts < users[id].failed_login_attempts
             => /\ users'[id].failed_login_attempts = 0
                /\ \/ last'.op = "login" /\ last'.outcome = "success"
                   \/ last'.op = "reset_password" /\ last'.outcome = "ok"]_vars

C16_Witness ==
    /\ last.op = "login" /\ last.outcome = "success"
    /\ last.target = Some(TargetId)
    /\ last.pre # None /\ last.pre[1].failed_login_attempts = LockoutThreshold
    /\ Target.failed_login_attempts = 0
    /\ query_by_username(users, Carol) # None

\* C17: an account whose locked_until is set has failed_login_attempts of
\* at least 10.
C17_LockImpliesThreshold ==
    \A id \in DOMAIN users :
        users[id].locked_until # None => users[id].failed_login_attempts >= 10

C17_Witness ==
    /\ last.op = "login" /\ last.outcome = "wrong_password"
    /\ Target.locked_until = Some(2 * TickStep + LockMinutes)
    /\ Target.failed_login_attempts = 11

\* C18: an account is treated as locked iff locked_until is set and the
\* clock is before it: once the clock has reached locked_until, a login with
\* the right password on an approved account succeeds, sets the session,
\* zeroes the count and clears the lock.
C18_LockLapses ==
    \A c \in Browsers, form \in LoginForms, stored \in BOOLEAN :
        \A uid \in {Named(form)} :
            (/\ form.password # <<>>
             /\ uid # None
             /\ users[uid[1]].is_approved)
            => \A r \in {login(users, login_attempts, session[c], Request(c, form),
                                now, stored, TRUE)} :
                   /\ (r.outcome = "locked") <=> LockedNow(users[uid[1]])
                   /\ (/\ users[uid[1]].locked_until # None
                       /\ now >= users[uid[1]].locked_until[1]
                       /\ check_password(users[uid[1]], form.password))
                      => /\ r.outcome = "success"
                         /\ r.session.user_id = uid
                         /\ r.users[uid[1]].failed_login_attempts = 0
                         /\ r.users[uid[1]].locked_until = None

C18_Witness ==
    /\ last.op = "login" /\ last.outcome = "success"
    /\ last.pre # None /\ last.pre[1].locked_until = Some(now)
    /\ session[last.client].user_id = Some(TargetId)
    /\ Clean(Target)

\* C19: a wrong-password login reports 10 minus the failed_login_attempts
\* after the increment when that is positive, and the lockout notice
\* otherwise; from a count c < 9 the reported number is 9 - c.
C19_RemainingAttempts ==
    \A c \in Browsers, form \in LoginForms, stored \in BOOLEAN :
        \A r \in {login(users, login_attempts, session[c], Request(c, form),
                        now, stored, TRUE)} :
            r.outcome = "wrong_password"
            => LET before == users[r.uid[1]].failed_login_attempts
                   after  == r.users[r.uid[1]].failed_login_attempts
               IN  /\ r.response.status = 200
                   /\ IF 10 - after > 0
                      THEN r.response.flash =
                               <<Flash("Invalid password. attempts remaining before lockout.",
                                       "danger", Some(10 - after))>>
                      ELSE r.response.flash =
                               <<Flash("Account locked for 30 minutes due to too many failed attempts.",
                                       "danger", None)>>
                   /\ before < 9 => r.response.flash[1].arg = Some(9 - before)

C19_Witness ==
    /\ last.op = "login" /\ last.outcome = "wrong_password"
    /\ last.pre # None /\ last.pre[1].failed_login_attempts = 3
    /\ last.response.flash[1].arg = Some(6)
    /\ Target.failed_login_attempts = 4

\* C20: in the success and wrong-password paths of login the attempt is
\* logged after the credential mutation has committed: a failed audit write,
\* with its rollback, leaves the account with the committed count and lock,
\* and a failed commit is followed by no audit write.
C20_AuditAfterCommit ==
    \A c \in Browsers, form \in LoginForms :
        /\ \A r \in {login(users, login_attempts, session[c], Request(c, form),
                           now, FALSE, TRUE)} :
               r.outcome \in {"success", "wrong_password"}
               => /\ r.users[r.uid[1]] =
                         login_verify(users[r.uid[1]], users[r.uid[1]],
                                      form.password, now).row
                  /\ r.users[r.uid[1]] # users[r.uid[1]] \/ Clean(users[r.uid[1]])
        /\ \A r \in {login(users, login_attempts, session[c], Request(c, form),
                           now, TRUE, FALSE)} :
               r.outcome = "commit_failed"
               => r.login_attempts = login_attempts /\ r.users = users

C20_Witness ==
    /\ last.op = "login" /\ last.outcome = "wrong_password"
    /\ login_attempts = <<>>
    /\ last.pre # None
    /\ Target.failed_login_attempts = last.pre[1].failed_login_attempts + 1
    /\ Target.failed_login_attempts = 2

\* C21: for every non-empty password over the alphabet, registration,
\* add_user and reset_password pass their inline password-strength step
\* iff validate_password accepts the password.
C21_StrengthIsPolicy ==
    (verdict # None /\ pw # <<>>) =>
        /\ \A r \in {register(users,
                              RegisterForm(Carol, EmailOf(Carol), pw, pw, <<"7">>, <<"7">>),
                              "s1", TRUE)} :
               (r.outcome \notin {"too_short", "weak"}) <=> verdict[1][1]
        /\ \A r \in {add_user(users, AdminSession,
                              AddForm(Carol, EmailOf(Carol), pw, pw), "s1", TRUE)} :
               (r.outcome \notin {"too_short", "weak"}) <=> verdict[1][1]
        /\ \A r \in {reset_password(users, AdminSession, TargetId,
                                    [new_password |-> Some(pw), confirm_password |-> Some(pw)],
                                    "s1", TRUE)} :
               (r.outcome \notin {"too_short", "weak"}) <=> verdict[1][1]

\* C22: registration compares the two CAPTCHA fields as integers. With both
\* fields filled in, one that is not an integer gets the form back with
\* "Invalid security answer." and no exception; two integers that differ get
\* the form back with "Incorrect answer to security question."; in both cases
\* no account is created; two fields that are equal as integers, however
\* they are written, pass the CAPTCHA step.
C22_CaptchaAsIntegers ==
    \A form \in CaptchaForms, committed \in BOOLEAN :
        \A k \in {int(strip(form.captcha))}, a \in {int(strip(form.captcha_answer))} :
            (strip(form.captcha) # <<>> /\ strip(form.captcha_answer) # <<>>)
            => \A r \in {register(users, form, "s1", committed)} :
                   /\ (k = None \/ a = None)
                      => /\ r.response =
                                render_template("nasa_register.html",
                                    <<Flash("Invalid security answer.", "danger", None)>>)
                         /\ r.response.status = 200
                         /\ r.users = users
                   /\ (k # None /\ a # None /\ k[1] # a[1])
                      => /\ r.response =
                                render_template("nasa_register.html",
                                    <<Flash("Incorrect answer to security question.",
                                            "danger", None)>>)
                         /\ r.users = users
                   /\ (k # None /\ a # None /\ k[1] = a[1])
                      => r.outcome \notin {"captcha_missing", "captcha_invalid",
                                           "captcha_wrong"}

C22_Witness ==
    /\ last.op = "register" /\ last.outcome = "captcha_invalid"
    /\ req["c1"].request.form.captcha = <<"7","x">>
    /\ req["c1"].request.form.captcha_answer = <<"7">>
    /\ last.response.status = 200
    /\ query_by_username(users, Carol) = None

\* C23: a login whose commit of the credential mutation fails ends in an
\* error response: the step leaves the session as it was, so no user_id is
\* set for the account, and writes no record to LoginAttempt.
C23_CommitFailureSurfaced ==
    [][(last'.op = "login" /\ last'.outcome = "commit_failed")
       => /\ session' = session
          /\ login_attempts' = login_attempts
          /\ last'.response = InternalServerError("PersistenceError")
          /\ last'.response.status = 500]_vars

C23_Witness ==
    /\ last.op = "login" /\ last.outcome = "commit_failed"
    /\ last.target = Some(TargetId) /\ last.matched
    /\ session[last.client] = EmptySession
    /\ login_attempts = <<>>
    /\ last.response.status = 500

\* the lockout notice of a wrong-password login
LockoutNotice ==
    <<Flash("Account locked for 30 minutes due to too many failed attempts.",
            "danger", None)>>

C24_UnapprovedUntilApproval ==
    /\ [](\A form \in RegisterForms, committed \in BOOLEAN :
             \A r \in {register(users, form, "s1", committed)} :
                 \A id \in DOMAIN r.users \ DOMAIN users :
                     ~r.users[id].is_approved)
    /\ [][\A id \in DOMAIN users \cap DOMAIN users' :
             (~users[id].is_approved /\ users'[id].is_approved)
             => /\ last'.op \in {"approve_user", "edit_user"}
                /\ last'.outcome = "ok"
                /\ last'.target = Some(id)]_vars
    /\ [][\A c \in Clients :
             (session'[c].user_id # session[c].user_id /\ session'[c].user_id # None)
             => /\ session'[c].user_id[1] \in DOMAIN users
                /\ users[session'[c].user_id[1]].is_approved]_vars

\* a login with the right password for the registered account, before any
\* approval: no session
C24_Witness ==
    /\ last.op = "login" /\ last.target = Some(CreatedId) /\ last.matched
    /\ last.pre # None /\ ~last.pre[1].is_approved
    /\ CreatedId \in DOMAIN users
    /\ users[CreatedId] = User(Carol, EmailOf(Carol), generate_password_hash(PwNew, "s1"),
                               TRUE, FALSE, FALSE)
    /\ \A c \in Clients : session[c].user_id # Some(CreatedId)

\* privileged requests that would change an account if they were let through
GateCalls ==
    {PrivilegedCall("approve_user", id, None) : id \in {PendingId, CreatedId}}
    \cup {PrivilegedCall("toggle_admin", id, None) : id \in {AdminId, TargetId, CreatedId}}
    \cup {PrivilegedCall("delete_user", id, None) : id \in {AdminId, TargetId, CreatedId}}
    \cup {PrivilegedCall("edit_user", id, Some(EditForm(Dave, EmailOf(Dave), TRUE, TRUE))) :
             id \in {TargetId, PendingId, CreatedId}}
    \cup {PrivilegedCall("reset_password", id, Some(SameReset(PwNew))) :
             id \in {AdminId, TargetId}}
    \cup {PrivilegedCall("add_user", MissingId,
                         Some(AddForm(Dave, EmailOf(Dave), PwNew, PwNew)))}

\* C25: a privileged request from a browser with no session, with a session
\* whose account is gone, or with a session whose account is not an
\* administrator leaves the table of accounts as it was: no row is changed,
\* added or deleted.
C25_PrivilegedGated ==
    \A c \in Clients :
        (\/ session[c].user_id = None
         \/ session[c].user_id[1] \notin DOMAIN users
         \/ ~users[session[c].user_id[1]].is_admin)
        => \A call \in GateCalls, committed \in BOOLEAN :
               \A r \in {privileged(users, login_attempts, session[c], call, "s1",
                                    committed)} :
                   /\ r.users = users
                   /\ r.outcome \in {"login_required", "access_denied"}

\* the administrator has deleted the account whose session the other
\* browser holds; that browser's approve_user is refused
C25_Witness ==
    /\ last.op = "approve_user" /\ last.outcome = "access_denied"
    /\ last.target = Some(PendingId)
    /\ session[last.client].user_id = Some(CreatedId)
    /\ CreatedId \notin DOMAIN users
    /\ ~users[PendingId].is_approved
    /\ last.pre = Some(users[PendingId])

\* C27: the session of a browser changes only in two ways. A login puts
\* user_id = A there when it found account A approved, not locked at that
\* time, and the submitted password verified against A's password_hash; a
\* logout empties the session. Registration, a login that fails and the
\* administrator's requests leave every session as it is. Sessions start
\* empty, so a session carries user_id = A only after such a login for A.
C27_SessionOnlyByLogin ==
    [][\A c \in Clients :
          session'[c] # session[c]
          => \/ /\ last'.op = "logout"
                /\ session'[c] = EmptySession
             \/ /\ last'.op = "login" /\ last'.outcome = "success"
                /\ last'.target # None
                /\ session'[c].user_id = last'.target
                /\ last'.target[1] \in DOMAIN users
                /\ users[last'.target[1]].is_approved
                /\ ~is_locked(users[last'.target[1]], now)
                /\ last'.matched
                /\ session'[c].username = Some(users[last'.target[1]].username)]_vars

\* the account's lock has lapsed; a login with the right password has put
\* its id into the session, while a registered account exists
C27_Witness ==
    /\ last.op = "login" /\ last.outcome = "success" /\ last.matched
    /\ last.target = Some(TargetId)
    /\ session["c1"].user_id = Some(TargetId)
    /\ last.pre # None /\ last.pre[1].is_approved
    /\ last.pre[1].locked_until # None /\ now >= last.pre[1].locked_until[1]
    /\ query_by_username(users, Carol) # None
    /\ ~users[query_by_username(users, Carol)[1]].is_approved

====
